---------------------------- MODULE Spec2Model ----------------------------
(***************************************************************************)
(* A model of pycsou's norm / indicator functionals (operator/func/norm.py, *)
(* operator/func/indicator.py), of the L1 norm and its Moreau envelope as   *)
(* exercised by pycsou_tests/operator/examples/test_proxfunc.py, and of the *)
(* Conjugate Gradient solver (opt/solver/cg.py).                            *)
(*                                                                         *)
(* Numbers are exact rationals [n |-> numerator, d |-> denominator] in      *)
(* lowest terms with d > 0; d = 0 encodes the IEEE specials (n = 0: NaN,    *)
(* n = 1: +inf, n = -1: -inf).  Floating-point rounding is not modelled.    *)
(* Arrays are records [shape |-> <<N>> or <<B, N>>, data |-> <<row, ...>>]: *)
(* the innermost axis is the problem dimension, rows are batch entries.     *)
(***************************************************************************)
EXTENDS Integers, Sequences, FiniteSets, TLC

VARIABLES
    call,       \* the last functional call: its arguments and its outcome
    A,          \* CG._A: the operator handed to CG.__init__
    heap,       \* array objects by identity: object id -> array
    mst,        \* CG._mstate: variable name -> object id
    args,       \* the array objects the caller passed to the last fit
    status,     \* the solver framework's state
    idx,        \* iterations (m_step calls) of the current fit
    fits        \* number of fits started on this solver

vars == <<call, A, heap, mst, args, status, idx, fits>>
funcVars == <<call>>
cgVars == <<A, heap, mst, args, status, idx, fits>>

---------------------------------------------------------------------------
(* Bounds of the model.                                                    *)

\* largest magnitude of an input entry
MaxAbs == 2
\* largest length of an input vector
MaxDim == 2
\* the solver loop's maximum-iteration bound
MaxIter == 3
\* fits per solver object (a second fit is a re-fit)
MaxFits == 2

---------------------------------------------------------------------------
(* Exact rational arithmetic with the IEEE specials.                       *)

Abs(i) == IF i < 0 THEN -i ELSE i

Sgn(i) == IF i > 0 THEN 1 ELSE IF i < 0 THEN -1 ELSE 0

RECURSIVE Gcd(_, _)
Gcd(a, b) == IF b = 0 THEN a ELSE Gcd(b, a % b)

Lcm(a, b) == (a \div Gcd(a, b)) * b

Rat(num, den) ==
    IF num = 0 THEN [n |-> 0, d |-> 1]
    ELSE LET g == Gcd(Abs(num), Abs(den))
         IN  [n |-> Sgn(den) * (num \div g), d |-> Abs(den) \div g]

Zero == [n |-> 0, d |-> 1]
One == [n |-> 1, d |-> 1]
NaN == [n |-> 0, d |-> 0]
Inf == [n |-> 1, d |-> 0]

IsFinite(a) == a.d # 0
IsNaN(a) == a.d = 0 /\ a.n = 0

RNeg(a) == [n |-> -a.n, d |-> a.d]

RAdd(a, b) ==
    IF IsNaN(a) \/ IsNaN(b) THEN NaN
    ELSE IF IsFinite(a) /\ IsFinite(b)
         THEN LET l == Lcm(a.d, b.d)
              IN  Rat(a.n * (l \div a.d) + b.n * (l \div b.d), l)
    ELSE IF ~IsFinite(a) /\ ~IsFinite(b) THEN (IF a.n = b.n THEN a ELSE NaN)
    ELSE IF ~IsFinite(a) THEN a ELSE b

RSub(a, b) == RAdd(a, RNeg(b))

RMul(a, b) ==
    IF IsNaN(a) \/ IsNaN(b) THEN NaN
    ELSE IF IsFinite(a) /\ IsFinite(b)
         THEN IF a.n = 0 \/ b.n = 0 THEN Zero
              ELSE LET g1 == Gcd(Abs(a.n), b.d)
                       g2 == Gcd(Abs(b.n), a.d)
                   IN  [n |-> (a.n \div g1) * (b.n \div g2),
                        d |-> (a.d \div g2) * (b.d \div g1)]
    ELSE IF a.n = 0 \/ b.n = 0 THEN NaN
    ELSE [n |-> Sgn(a.n) * Sgn(b.n), d |-> 0]

RDiv(a, b) ==
    IF IsNaN(a) \/ IsNaN(b) THEN NaN
    ELSE IF ~IsFinite(b) THEN (IF IsFinite(a) THEN Zero ELSE NaN)
    ELSE IF b.n = 0 THEN (IF a.n = 0 THEN NaN ELSE [n |-> Sgn(a.n), d |-> 0])
    ELSE RMul(a, [n |-> Sgn(b.n) * b.d, d |-> Abs(b.n)])

\* a < b, a <= b; every comparison with NaN is false
RLt(a, b) ==
    IF IsNaN(a) \/ IsNaN(b) THEN FALSE
    ELSE IF IsFinite(a) /\ IsFinite(b)
         THEN LET l == Lcm(a.d, b.d)
              IN  a.n * (l \div a.d) < b.n * (l \div b.d)
    ELSE IF ~IsFinite(a) /\ ~IsFinite(b) THEN a.n < b.n
    ELSE IF ~IsFinite(a) THEN a.n < 0 ELSE b.n > 0

RLe(a, b) == ~IsNaN(a) /\ ~IsNaN(b) /\ ~RLt(b, a)

RAbs(a) == [n |-> Abs(a.n), d |-> a.d]
RSign(a) == IF IsNaN(a) THEN NaN ELSE Rat(Sgn(a.n), 1)
RMax(a, b) == IF RLt(a, b) THEN b ELSE a
RMin(a, b) == IF RLt(b, a) THEN b ELSE a

\* exact square roots: defined on the rationals that have one
IsSquare(i) == \E k \in 0..i : k * k = i
ISqrt(i) == CHOOSE k \in 0..i : k * k = i
HasSqrt(a) == IsFinite(a) /\ a.n >= 0 /\ IsSquare(a.n) /\ IsSquare(a.d)
RSqrt(a) == [n |-> ISqrt(a.n), d |-> ISqrt(a.d)]

---------------------------------------------------------------------------
(* Vectors (rows) and arrays.                                              *)

VAdd(v, w) == [i \in 1..Len(v) |-> RAdd(v[i], w[i])]
VSub(v, w) == [i \in 1..Len(v) |-> RSub(v[i], w[i])]
VAbs(v) == [i \in 1..Len(v) |-> RAbs(v[i])]
VScale(c, v) == [i \in 1..Len(v) |-> RMul(c, v[i])]

RECURSIVE VSumTo(_, _)
VSumTo(v, k) == IF k = 0 THEN Zero ELSE RAdd(VSumTo(v, k - 1), v[k])
VSum(v) == VSumTo(v, Len(v))

RECURSIVE VMaxTo(_, _)
VMaxTo(v, k) == IF k = 1 THEN v[1] ELSE RMax(VMaxTo(v, k - 1), v[k])
VMax(v) == VMaxTo(v, Len(v))

Norm1(v) == VSum(VAbs(v))
Dot(v, w) == VSum([i \in 1..Len(v) |-> RMul(v[i], w[i])])
Norm2Sq(v) == Dot(v, v)
NormInf(v) == VMax(VAbs(v))
ZeroVec(len) == [i \in 1..len |-> Zero]
IntVec(v) == [i \in 1..Len(v) |-> Rat(v[i], 1)]

\* xp.sort(.)[::-1]: the entries in descending order (insertion sort)
RECURSIVE InsertDesc(_, _)
InsertDesc(x, s) ==
    IF s = <<>> THEN <<x>>
    ELSE IF RLe(s[1], x) THEN <<x>> \o s
    ELSE <<s[1]>> \o InsertDesc(x, Tail(s))

RECURSIVE SortDescTo(_, _)
SortDescTo(v, k) == IF k = 0 THEN <<>> ELSE InsertDesc(v[k], SortDescTo(v, k - 1))
SortDesc(v) == SortDescTo(v, Len(v))

\* xp.cumsum
CumSum(v) == [i \in 1..Len(v) |-> VSumTo(v, i)]

Arr1(row) == [shape |-> <<Len(row)>>, data |-> <<row>>]
Arr2(rows) == [shape |-> <<Len(rows), Len(rows[1])>>, data |-> rows]
NRows(a) == Len(a.data)
InnerDim(a) == a.shape[Len(a.shape)]
NoArr == [shape |-> <<>>, data |-> <<>>]


---------------------------------------------------------------------------
(* Outcome of one functional call on one row.                              *)

NoBracket == [used |-> FALSE, a |-> Zero, b |-> Zero, fa |-> Zero, fb |-> Zero]
Bracket(a, b, fa, fb) == [used |-> TRUE, a |-> a, b |-> b, fa |-> fa, fb |-> fb]

Returns(row) == [out |-> row, raised |-> "", bracket |-> NoBracket]
Raises(err, br) == [out |-> <<>>, raised |-> err, bracket |-> br]

\* scipy.optimize.brentq(f, a, b) for end values fa = f(a), fb = f(b): refuses
\* a bracket with fa * fb > 0, returns an end point that is a root, and
\* otherwise converges to the root between a and b.  The iteration is modelled
\* by its exact limit, taken among `roots`, the zeros of f.
BrentqRaises(fa, fb) == RLt(Zero, RMul(fa, fb))

Brentq(a, b, fa, fb, roots) ==
    IF fa = Zero THEN a
    ELSE IF fb = Zero THEN b
    ELSE CHOOSE c \in roots : RLe(RMin(a, b), c) /\ RLe(c, RMax(a, b))

\* y = xp.fmax(0, xp.fabs(arr) - t); y *= xp.sign(arr)
SoftThreshold(row, t) ==
    [i \in 1..Len(row) |-> RMul(RMax(Zero, RSub(RAbs(row[i]), t)), RSign(row[i]))]

---------------------------------------------------------------------------
(* operator/func/norm.py                                                   *)

L1Norm_apply(row) == Norm1(row)

\* a prox that leaves out `y *= xp.sign(arr)`
L1Norm_prox_nosign(row, tau) ==
    Returns([i \in 1..Len(row) |-> RMax(Zero, RSub(RAbs(row[i]), tau))])

L1Norm_prox(row, tau) == Returns(SoftThreshold(row, tau))

\* pylinalg.norm(arr, ord=2): exact where the norm is rational
L2Norm_apply(row) == RSqrt(Norm2Sq(row))

\* xp.fmax(self.apply(arr), tau), decided on the squares (tau > 0)
L2Norm_fmax(row, tau) ==
    IF RLe(Norm2Sq(row), RMul(tau, tau)) THEN tau ELSE L2Norm_apply(row)

L2Norm_prox(row, tau) ==
    LET scale == RSub(One, RDiv(tau, L2Norm_fmax(row, tau)))
    IN  Returns(VScale(scale, row))

SquaredL2Norm_prox(row, tau) ==
    LET den == RAdd(RMul(Rat(2, 1), tau), One)
    IN  Returns([i \in 1..Len(row) |-> RDiv(row[i], den)])

None == 0

\* a Hessian that takes dimension 1 when none is set
SquaredL2Norm_hessian_default(dim) ==
    [raised |-> "", op |-> "IdentityOp", dim |-> IF dim = None THEN 1 ELSE dim]

\* _hessian(): IdentityOp(dim=self.dim).squeeze(), named by its kind and dimension
SquaredL2Norm_hessian(dim) ==
    IF dim = None
    THEN [raised |-> "ValueError", op |-> "", dim |-> None]
    ELSE [raised |-> "", op |-> "IdentityOp", dim |-> dim]

\* 2 * tau / (1 + k * 2 * tau)
SortCoef(k, tau) ==
    LET tt == RMul(Rat(2, 1), tau)
    IN  RDiv(tt, RAdd(One, RMul(Rat(k, 1), tt)))

SquaredL1Norm_prox_sort(row, tau) ==
    LET z == SortDesc(VAbs(row))
        cumsum_z == CumSum(z)
        test_array == [k \in 1..Len(z) |-> RSub(z[k], RMul(SortCoef(k, tau), cumsum_z[k]))]
        nonzero == {k \in 1..Len(z) : RLt(Zero, test_array[k])}
    IN  IF nonzero = {}
        THEN Raises("ValueError", NoBracket)   \* xp.max of an empty array
        ELSE LET max_nzi == CHOOSE k \in nonzero : \A j \in nonzero : j <= k
                 threshold == RMul(SortCoef(max_nzi, tau), cumsum_z[max_nzi])
             IN  Returns(SoftThreshold(row, threshold))

\* sqrt(mu_min) for mu_min = 1e-12.  func depends on mu only through
\* sqrt(tau / mu), so mu is carried by its square root.
SqrtMuMin == Rat(1, 1000000)

\* xp.linalg.norm(arr) > 0
Norm2Positive(row) == \E i \in 1..Len(row) : row[i].n # 0

\* func = lambda mu: sum(fmax(|arr| * sqrt(tau / mu) - 2 * tau, 0)) - 1
RootFunc(row, tau, sqrt_mu) ==
    LET s == RDiv(RSqrt(tau), sqrt_mu)
        tt == RMul(Rat(2, 1), tau)
    IN  RSub(VSum([i \in 1..Len(row) |->
                     RMax(RSub(RMul(RAbs(row[i]), s), tt), Zero)]), One)

RootCands(row, tau) ==
    LET cs == CumSum(SortDesc(VAbs(row)))
    IN  {RDiv(RMul(RSqrt(tau), cs[k]),
              RAdd(One, RMul(Rat(2 * k, 1), tau))) : k \in 1..Len(row)}

RootRoots(row, tau) == {c \in RootCands(row, tau) : RootFunc(row, tau, c) = Zero}

SquaredL1Norm_prox_root(row, tau) ==
    IF Norm2Positive(row)
    THEN LET sqrt_mu_max == RDiv(NormInf(row), RMul(Rat(2, 1), RSqrt(tau)))
             sqrt_mu_min == SqrtMuMin
             fa == RootFunc(row, tau, sqrt_mu_min)
             fb == RootFunc(row, tau, sqrt_mu_max)
             br == Bracket(sqrt_mu_min, sqrt_mu_max, fa, fb)
         IN  IF BrentqRaises(fa, fb)
             THEN Raises("ValueError", br)
             ELSE LET sqrt_mu_star == Brentq(sqrt_mu_min, sqrt_mu_max, fa, fb,
                                             RootRoots(row, tau))
                      s == RDiv(RSqrt(tau), sqrt_mu_star)
                      tt == RMul(Rat(2, 1), tau)
                      lambda_ == [i \in 1..Len(row) |->
                                    RMax(RSub(RMul(RAbs(row[i]), s), tt), Zero)]
                  IN  [out |-> [i \in 1..Len(row) |->
                                  RDiv(RMul(lambda_[i], row[i]), RAdd(lambda_[i], tt))],
                       raised |-> "", bracket |-> br]
    ELSE Returns(row)

SquaredL1Norm_prox(row, tau, prox_computation) ==
    IF prox_computation = "root" THEN SquaredL1Norm_prox_root(row, tau)
    ELSE SquaredL1Norm_prox_sort(row, tau)

LInftyNorm_apply(row) == NormInf(row)

\* func = lambda mu: sum(fmax(|arr| - mu, 0)) - c
ShrinkFunc(row, c, mu) ==
    RSub(VSum([i \in 1..Len(row) |-> RMax(RSub(RAbs(row[i]), mu), Zero)]), c)

ShrinkCands(row, c) ==
    LET cs == CumSum(SortDesc(VAbs(row)))
    IN  {RDiv(RSub(cs[k], c), Rat(k, 1)) : k \in 1..Len(row)}

ShrinkRoots(row, c) == {m \in ShrinkCands(row, c) : ShrinkFunc(row, c, m) = Zero}

LInftyNorm_prox(row, tau) ==
    LET mu_max == LInftyNorm_apply(row)
        fa == ShrinkFunc(row, tau, Zero)
        fb == ShrinkFunc(row, tau, mu_max)
        br == Bracket(Zero, mu_max, fa, fb)
    IN  IF BrentqRaises(fa, fb)
        THEN Raises("ValueError", br)
        ELSE LET mu_star == Brentq(Zero, mu_max, fa, fb, ShrinkRoots(row, tau))
             IN  [out |-> [i \in 1..Len(row) |->
                             RMul(RMin(RAbs(row[i]), mu_star), RSign(row[i]))],
                  raised |-> "", bracket |-> br]

---------------------------------------------------------------------------
(* operator/func/indicator.py                                              *)

\* a projection that goes to the root search without the inside-the-ball test
L1Ball_prox_always_root(row, tau, radius) ==
    LET mu_max == NormInf(row)
        fa == ShrinkFunc(row, radius, Zero)
        fb == ShrinkFunc(row, radius, mu_max)
        br == Bracket(Zero, mu_max, fa, fb)
    IN  IF BrentqRaises(fa, fb)
        THEN Raises("ValueError", br)
        ELSE LET mu_star == Brentq(Zero, mu_max, fa, fb, ShrinkRoots(row, radius))
             IN  [out |-> SoftThreshold(row, mu_star), raised |-> "", bracket |-> br]

L1Ball_prox(row, tau, radius) ==
    IF RLe(Norm1(row), radius)
    THEN Returns(row)
    ELSE LET mu_max == NormInf(row)
             fa == ShrinkFunc(row, radius, Zero)
             fb == ShrinkFunc(row, radius, mu_max)
             br == Bracket(Zero, mu_max, fa, fb)
         IN  IF BrentqRaises(fa, fb)
             THEN Raises("ValueError", br)
             ELSE LET mu_star == Brentq(Zero, mu_max, fa, fb, ShrinkRoots(row, radius))
                  IN  [out |-> SoftThreshold(row, mu_star),
                       raised |-> "", bracket |-> br]

\* arr_norm <= self._radius, decided on the squares (radius > 0)
L2Ball_inside(row, radius) == RLe(Norm2Sq(row), RMul(radius, radius))

L2Ball_prox(row, tau, radius) ==
    IF L2Ball_inside(row, radius)
    THEN Returns(row)
    ELSE LET arr_norm == L2Norm_apply(row)
         IN  Returns([i \in 1..Len(row) |-> RDiv(RMul(radius, row[i]), arr_norm)])

LInfinityBall_prox(row, tau, radius) ==
    IF RLe(NormInf(row), radius)
    THEN Returns(row)
    ELSE Returns([i \in 1..Len(row) |->
                    RMul(RMin(RAbs(row[i]), radius), RSign(row[i]))])

---------------------------------------------------------------------------
(* pycsou_tests/operator/examples/test_proxfunc.py: the test's own L1 norm, *)
(* the envelope built from it, and the values the fixtures expect.          *)

TestL1Norm_apply(row) == Norm1(row)

TestL1Norm_prox(row, tau) ==
    [i \in 1..Len(row) |-> RMul(RMax(Zero, RSub(RAbs(row[i]), tau)), RSign(row[i]))]

\* ProxFunc.moreau_envelope(mu).apply:
\*   f(prox_f(x, mu)) + (1 / (2 mu)) * ||prox_f(x, mu) - x||_2^2
Moreau_apply(row, mu) ==
    LET y == TestL1Norm_prox(row, mu)
        diff == VSub(y, row)
    IN  RAdd(TestL1Norm_apply(y), RMul(RDiv(One, RMul(Rat(2, 1), mu)), Norm2Sq(diff)))

\* ProxFunc.moreau_envelope(mu).grad: (x - prox_f(x, mu)) / mu
Moreau_grad(row, mu) ==
    LET y == TestL1Norm_prox(row, mu)
    IN  [i \in 1..Len(row) |-> RDiv(RSub(row[i], y[i]), mu)]

\* TestL1NormMoreau.data_apply: z = f(y) + (0.5 / mu) * norm(y - x) ** 2
data_apply(row, mu) ==
    LET y == TestL1Norm_prox(row, mu)
        d == VSub(y, row)
    IN  RAdd(TestL1Norm_apply(y), RMul(RDiv(Rat(1, 2), mu), Norm2Sq(d)))

\* an expectation that divides by 2 mu
data_grad_halved(row, mu) ==
    LET p == TestL1Norm_prox(row, mu)
    IN  [i \in 1..Len(row) |-> RDiv(RSub(row[i], p[i]), RMul(Rat(2, 1), mu))]

\* TestL1NormMoreau.data_grad: y = (x - f.prox(x, mu)) / mu
data_grad(row, mu) ==
    LET p == TestL1Norm_prox(row, mu)
    IN  [i \in 1..Len(row) |-> RDiv(RSub(row[i], p[i]), mu)]

\* TestL1Norm.data_prox: the two evaluation points of the prox test
data_prox ==
    { [arr |-> IntVec(<<0, 0, 0, 0, 0>>), tau |-> One,
       out |-> IntVec(<<0, 0, 0, 0, 0>>)],
      [arr |-> IntVec(<<-3, -2, -1, 0, 1>>), tau |-> One,
       out |-> IntVec(<<-2, -1, 0, 0, 0>>)] }

---------------------------------------------------------------------------
(* Inputs of the functional calls.                                         *)

Rows == UNION {{IntVec(v) : v \in [1..len -> -MaxAbs..MaxAbs]} : len \in 1..MaxDim}

\* rows of magnitude 1e-6
TinyRows == {VScale(SqrtMuMin, r) : r \in Rows}

\* (N,) arrays, (2, 1) batches, and the two test points as one (2, 5) batch
L1Inputs ==
    {Arr1(r) : r \in Rows \cup {t.arr : t \in data_prox}}
    \cup {Arr2(<<r, q>>) : r, q \in {IntVec(v) : v \in [1..1 -> -MaxAbs..MaxAbs]}}
    \cup {Arr2(<<IntVec(<<0, 0, 0, 0, 0>>), IntVec(<<-3, -2, -1, 0, 1>>)>>)}

TauSet == {Rat(1, 4), One, Rat(2, 1), Rat(4, 1)}
RadiusSet == {Rat(1, 2), One, Rat(2, 1)}
Dims == {None} \cup 1..MaxDim

NoRet == [op |-> "", dim |-> None]

NoCall ==
    [op |-> "", variant |-> "", arr |-> NoArr, tau |-> Zero, radius |-> Zero,
     dim |-> None, out |-> NoArr, raised |-> "", bracket |-> NoBracket, ret |-> NoRet]

\* the record of a call on a (N,) array whose outcome on its row is `res`
RowCall(op, variant, row, tau, radius, res) ==
    [NoCall EXCEPT !.op = op, !.variant = variant, !.arr = Arr1(row), !.tau = tau,
                   !.radius = radius,
                   !.out = IF res.raised = "" THEN Arr1(res.out) ELSE NoArr,
                   !.raised = res.raised, !.bracket = res.bracket]

---------------------------------------------------------------------------
(* The functional calls.  The functionals hold no state between calls: a   *)
(* call is made from the idle state, and its outcome is then consumed.     *)

Idle == call = NoCall

Return ==
    /\ ~Idle
    /\ call' = NoCall
    /\ UNCHANGED cgVars

\* L1Norm.prox is elementwise: it acts on every row of a batch alike
CallL1NormProx ==
    /\ Idle
    /\ \E arr \in L1Inputs, tau \in TauSet :
        /\ call' = [NoCall EXCEPT !.op = "L1Norm.prox", !.arr = arr, !.tau = tau,
                       !.out = [shape |-> arr.shape,
                                data |-> [k \in 1..NRows(arr) |->
                                            L1Norm_prox(arr.data[k], tau).out]]]
        /\ UNCHANGED cgVars

CallL2NormProx ==
    /\ Idle
    /\ \E row \in Rows, tau \in TauSet :
        /\ RLe(Norm2Sq(row), RMul(tau, tau)) \/ HasSqrt(Norm2Sq(row))
        /\ call' = RowCall("L2Norm.prox", "", row, tau, Zero, L2Norm_prox(row, tau))
        /\ UNCHANGED cgVars

CallSquaredL2NormProx ==
    /\ Idle
    /\ \E row \in Rows, tau \in TauSet :
        /\ call' = RowCall("SquaredL2Norm.prox", "", row, tau, Zero,
                           SquaredL2Norm_prox(row, tau))
        /\ UNCHANGED cgVars

CallSquaredL1NormProx ==
    /\ Idle
    /\ \E row \in Rows \cup TinyRows, tau \in TauSet, pc \in {"sort", "root"} :
        /\ HasSqrt(tau)
        /\ call' = RowCall("SquaredL1Norm.prox", pc, row, tau, Zero,
                           SquaredL1Norm_prox(row, tau, pc))
        /\ UNCHANGED cgVars

CallLInftyNormProx ==
    /\ Idle
    /\ \E row \in Rows, tau \in TauSet :
        /\ call' = RowCall("LInftyNorm.prox", "", row, tau, Zero,
                           LInftyNorm_prox(row, tau))
        /\ UNCHANGED cgVars

CallL1BallProx ==
    /\ Idle
    /\ \E row \in Rows, tau \in TauSet, radius \in RadiusSet :
        /\ call' = RowCall("L1Ball.prox", "", row, tau, radius,
                           L1Ball_prox(row, tau, radius))
        /\ UNCHANGED cgVars

CallL2BallProx ==
    /\ Idle
    /\ \E row \in Rows, tau \in TauSet, radius \in RadiusSet :
        /\ L2Ball_inside(row, radius) \/ HasSqrt(Norm2Sq(row))
        /\ call' = RowCall("L2Ball.prox", "", row, tau, radius,
                           L2Ball_prox(row, tau, radius))
        /\ UNCHANGED cgVars

CallLInfinityBallProx ==
    /\ Idle
    /\ \E row \in Rows, tau \in TauSet, radius \in RadiusSet :
        /\ call' = RowCall("LInfinityBall.prox", "", row, tau, radius,
                           LInfinityBall_prox(row, tau, radius))
        /\ UNCHANGED cgVars

CallHessian ==
    /\ Idle
    /\ \E dim \in Dims :
        LET h == SquaredL2Norm_hessian(dim)
        IN  /\ call' = [NoCall EXCEPT !.op = "SquaredL2Norm.hessian", !.dim = dim,
                           !.raised = h.raised,
                           !.ret = [op |-> h.op, dim |-> h.dim]]
            /\ UNCHANGED cgVars

\* the envelope of L1Norm(M = dim); a fixed dim admits rows of that length only
CallMoreauApply ==
    /\ Idle
    /\ \E dim \in Dims, row \in Rows, mu \in TauSet :
        /\ dim # None => Len(row) = dim
        /\ call' = [NoCall EXCEPT !.op = "moreau.apply", !.dim = dim, !.arr = Arr1(row),
                       !.tau = mu, !.out = Arr1(<<Moreau_apply(row, mu)>>)]
        /\ UNCHANGED cgVars

CallMoreauGrad ==
    /\ Idle
    /\ \E dim \in Dims, row \in Rows, mu \in TauSet :
        /\ dim # None => Len(row) = dim
        /\ call' = [NoCall EXCEPT !.op = "moreau.grad", !.dim = dim, !.arr = Arr1(row),
                       !.tau = mu, !.out = Arr1(Moreau_grad(row, mu))]
        /\ UNCHANGED cgVars

---------------------------------------------------------------------------
(* Arrays with numpy broadcasting (shapes <<N>> and <<B, N>>).             *)

Max2(i, j) == IF i < j THEN j ELSE i

\* the shape two arrays broadcast to
BShape(s1, s2) ==
    IF Len(s1) = 1 THEN s2
    ELSE IF Len(s2) = 1 THEN s1
    ELSE <<Max2(s1[1], s2[1]), s1[2]>>

ShapeRows(shape) == IF Len(shape) = 1 THEN 1 ELSE shape[1]

\* the rows of `a` seen through shape `shape`
RowsAs(a, shape) ==
    [k \in 1..ShapeRows(shape) |-> a.data[IF NRows(a) = 1 THEN 1 ELSE k]]

\* a + b and a - b under broadcasting
ArrAdd(a, b) ==
    LET sh == BShape(a.shape, b.shape)
    IN  [shape |-> sh,
         data |-> [k \in 1..ShapeRows(sh) |-> VAdd(RowsAs(a, sh)[k], RowsAs(b, sh)[k])]]

ArrSub(a, b) ==
    LET sh == BShape(a.shape, b.shape)
    IN  [shape |-> sh,
         data |-> [k \in 1..ShapeRows(sh) |-> VSub(RowsAs(a, sh)[k], RowsAs(b, sh)[k])]]

\* an array times one coefficient per row (a keepdims=True reduction)
RowScale(coef, a) ==
    [shape |-> a.shape, data |-> [k \in 1..NRows(a) |-> VScale(coef[k], a.data[k])]]

zeros_like(a) ==
    [shape |-> a.shape, data |-> [k \in 1..NRows(a) |-> ZeroVec(Len(a.data[k]))]]

\* `x op= y` needs the broadcast shape to be x's own
InPlaceOK(x, y) == BShape(x.shape, y.shape) = x.shape

---------------------------------------------------------------------------
(* linop/base.py and the operators handed to CG                            *)

MatVec(M, v) == [i \in 1..Len(M) |-> Dot(M[i], v)]

\* A.apply(arr): the operator acts on the innermost axis of every row
A_apply(M, arr) ==
    [shape |-> arr.shape, data |-> [k \in 1..NRows(arr) |-> MatVec(M, arr.data[k])]]

\* IdentityOperator.apply returns its argument
IdentityOperator == <<IntVec(<<1, 0>>), IntVec(<<0, 1>>)>>

\* symmetric positive-definite operators: the identity, a diagonal one, and
\* the Gram operator M^T M of M = [[1, 0], [1, 1]]
Operators ==
    { IdentityOperator,
      <<IntVec(<<1, 0>>), IntVec(<<0, 2>>)>>,
      <<IntVec(<<2, 1>>), IntVec(<<1, 1>>)>> }

---------------------------------------------------------------------------
(* opt/solver/cg.py                                                        *)

NoState == [b |-> "", x |-> "", residual |-> "", conjugate_dir |-> ""]

EmptyHeap ==
    [b |-> NoArr, x0 |-> NoArr, x |-> NoArr, residual |-> NoArr, conjugate_dir |-> NoArr]

\* the heap as the caller hands b and x0 to fit: both arrays have the runtime
\* precision, so enforce_precision passes the caller's objects on
CallerHeap(b, x0) == [EmptyHeap EXCEPT !.b = b, !.x0 = x0]

\* an m_init that binds conjugate_dir to the residual array itself (no copy)
m_init_aliased(M, h, hasX0) ==
    LET b == h.b
        h1 == IF hasX0 THEN h ELSE [h EXCEPT !.x = zeros_like(b)]
        x == IF hasX0 THEN "x0" ELSE "x"
        res == ArrSub(b, A_apply(M, h1[x]))
        h2 == [h1 EXCEPT !.residual = [shape |-> b.shape, data |-> RowsAs(res, b.shape)]]
    IN  [heap |-> h2,
         mst |-> [b |-> "b", x |-> x, residual |-> "residual",
                  conjugate_dir |-> "residual"]]

\* CG.m_init(b, x0); hasX0 = FALSE stands for x0 = None
m_init(M, h, hasX0) ==
    LET b == h.b
        h1 == IF hasX0 THEN h ELSE [h EXCEPT !.x = zeros_like(b)]
        x == IF hasX0 THEN "x0" ELSE "x"
        \* mst["residual"] = zeros_like(b); mst["residual"][:] = b - A.apply(x)
        res == ArrSub(b, A_apply(M, h1[x]))
        h2 == [h1 EXCEPT !.residual = [shape |-> b.shape, data |-> RowsAs(res, b.shape)]]
        \* mst["conjugate_dir"] = mst["residual"].copy()
        h3 == [h2 EXCEPT !.conjugate_dir = h2.residual]
    IN  [heap |-> h3,
         mst |-> [b |-> "b", x |-> x, residual |-> "residual",
                  conjugate_dir |-> "conjugate_dir"]]

\* per row: ||r||_2^2
RowNormSq(a) == [k \in 1..NRows(a) |-> Norm2Sq(a.data[k])]

\* CG.m_step(); every in-place update goes through the object's identity
m_step(M, h, m) ==
    LET Ap == A_apply(M, h[m.conjugate_dir])
        rr == RowNormSq(h[m.residual])
        pAp == [k \in 1..NRows(Ap) |-> Dot(h[m.conjugate_dir].data[k], Ap.data[k])]
        alpha == [k \in 1..NRows(Ap) |-> RDiv(rr[k], pAp[k])]
        alpha_p == RowScale(alpha, h[m.conjugate_dir])
    IN  IF ~InPlaceOK(h[m.x], alpha_p)
        THEN [heap |-> h, raised |-> "ValueError"]     \* x += alpha * p
        ELSE LET h1 == [h EXCEPT ![m.x] = ArrAdd(h[m.x], alpha_p)]
                 \* r -= alpha * Ap
                 h2 == [h1 EXCEPT ![m.residual] =
                            ArrSub(h1[m.residual], RowScale(alpha, Ap))]
                 rr_new == RowNormSq(h2[m.residual])
                 beta == [k \in 1..NRows(Ap) |-> RDiv(rr_new[k], rr[k])]
                 \* p *= beta
                 h3 == [h2 EXCEPT ![m.conjugate_dir] = RowScale(beta, h2[m.conjugate_dir])]
                 \* p += r
                 h4 == [h3 EXCEPT ![m.conjugate_dir] =
                            ArrAdd(h3[m.conjugate_dir], h3[m.residual])]
             IN  [heap |-> h4, raised |-> ""]

\* eps of the default stopping criterion, as 1 / EpsInv
EpsInv == 10000

\* explicit_residual(x): residual = mst["b"].copy(); residual -= A.apply(x)
explicit_residual(M, h, m) == ArrSub(h[m.b], A_apply(M, h[m.x]))

\* AbsError(eps=1e-4, var="x", f=explicit_residual, norm=2, satisfy_all=True):
\* every batch entry has ||f(x)||_2 <= eps, decided on the squares
default_stop_crit(M, h, m) ==
    LET f == explicit_residual(M, h, m)
    IN  \A k \in 1..NRows(f) :
            LET s == Norm2Sq(f.data[k])
            IN  IsFinite(s) /\ s.n <= s.d \div (EpsInv * EpsInv)

---------------------------------------------------------------------------
(* The solver framework's fit loop around CG.                              *)

\* the state after a step's stopping-criterion check: the loop ends when the
\* criterion holds, and also on the maximum-iteration bound
LoopStatus(converged, n) ==
    IF converged THEN "converged"
    ELSE IF n >= MaxIter THEN "max_iter"
    ELSE "running"

BRows == {IntVec(v) : v \in [1..Len(IdentityOperator) -> -1..1]}
XRows == {IntVec(v) : v \in [1..Len(IdentityOperator) -> 0..1]}

\* b of shape (N,) or (2, N) (second row zero or <<1, 0>>)
BInputs ==
    {Arr1(r) : r \in BRows}
    \cup {Arr2(<<r, q>>) : r \in BRows, q \in {IntVec(<<0, 0>>), IntVec(<<1, 0>>)}}

\* x0: None, or any array that broadcasts to b's shape: b's own shape, (N,),
\* or (1, N)
X0Inputs(b) ==
    {[hasX0 |-> FALSE, x0 |-> NoArr]}
    \cup {[hasX0 |-> TRUE, x0 |-> Arr1(r)] : r \in XRows}
    \cup IF Len(b.shape) = 1 THEN {}
         ELSE {[hasX0 |-> TRUE, x0 |-> Arr2(<<IntVec(<<1, 0>>)>>)]}
              \cup {[hasX0 |-> TRUE, x0 |-> Arr2(<<r, ZeroVec(Len(r))>>)] :
                      r \in {IntVec(<<1, 0>>), IntVec(<<1, 1>>)}}

NoArgs == [b |-> NoArr, hasX0 |-> FALSE, x0 |-> NoArr]

Terminal == {"converged", "max_iter"}

\* fit(b, x0): stores the data and calls m_init; a solver that has ended a fit
\* can be fit again
Fit ==
    /\ status \in {"uninitialized", "error"} \cup Terminal
    /\ fits < MaxFits
    /\ \E b \in BInputs :
         \E in \in X0Inputs(b) :
            LET st == m_init(A, CallerHeap(b, in.x0), in.hasX0)
            IN  /\ heap' = st.heap
                /\ mst' = st.mst
                /\ args' = [b |-> b, hasX0 |-> in.hasX0, x0 |-> in.x0]
    /\ status' = "running"
    /\ idx' = 0
    /\ fits' = fits + 1
    /\ UNCHANGED <<A, call>>

\* one iteration of the loop: m_step, then the stopping-criterion check; an
\* exception raised by m_step ends the fit
Step ==
    /\ status = "running"
    /\ LET st == m_step(A, heap, mst)
       IN  IF st.raised # ""
           THEN /\ status' = "error"
                /\ UNCHANGED <<heap, idx>>
           ELSE /\ heap' = st.heap
                /\ idx' = idx + 1
                /\ status' = LoopStatus(default_stop_crit(A, st.heap, mst), idx + 1)
    /\ UNCHANGED <<A, mst, args, fits, call>>

---------------------------------------------------------------------------
(* Specifications.                                                         *)

IdleSolver ==
    /\ heap = EmptyHeap
    /\ mst = NoState
    /\ args = NoArgs
    /\ status = "uninitialized"
    /\ idx = 0
    /\ fits = 0

\* the functionals
Init ==
    /\ call = NoCall
    /\ A = IdentityOperator
    /\ IdleSolver

Next ==
    \/ CallL1NormProx
    \/ CallL2NormProx
    \/ CallSquaredL2NormProx
    \/ CallSquaredL1NormProx
    \/ CallLInftyNormProx
    \/ CallL1BallProx
    \/ CallL2BallProx
    \/ CallLInfinityBallProx
    \/ CallHessian
    \/ CallMoreauApply
    \/ CallMoreauGrad
    \/ Return

Spec == Init /\ [][Next]_vars

\* the solver: CG(A) for a positive-definite A, then fits
InitCG ==
    /\ call = NoCall
    /\ A \in Operators
    /\ IdleSolver

NextCG == Fit \/ Step

SpecCG == InitCG /\ [][NextCG]_vars

---------------------------------------------------------------------------
(* Claims about the functionals (checked under Spec).                      *)

\* f(z) + (1 / (2 tau)) * ||z - x||_2^2 for f the l1 norm
L1Objective(z, x, tau) ==
    RAdd(Norm1(z), RMul(RDiv(One, RMul(Rat(2, 1), tau)), Norm2Sq(VSub(z, x))))

\* candidates z around y: y with one entry moved anywhere on the quarter grid
\* of the input box, the zero vector, x itself, and (for rows of length <= 2)
\* every integer point of the box
AxisMoves(y) ==
    {[y EXCEPT ![i] = Rat(q, 4)] : i \in 1..Len(y), q \in (-4 * MaxAbs)..(4 * MaxAbs)}
ZGrid(len) == {IntVec(v) : v \in [1..len -> -MaxAbs..MaxAbs]}
Candidates(y, x) ==
    AxisMoves(y) \cup {ZeroVec(Len(x)), x}
    \cup (IF Len(x) <= 2 THEN ZGrid(Len(x)) ELSE {})

\* elementwise soft-thresholding, stated by cases
IsSoftThresholded(y, x, tau) ==
    /\ Len(y) = Len(x)
    /\ \A i \in 1..Len(x) :
          IF RLt(tau, x[i]) THEN y[i] = RSub(x[i], tau)
          ELSE IF RLt(x[i], RNeg(tau)) THEN y[i] = RAdd(x[i], tau)
          ELSE y[i] = Zero

\* C1: L1Norm.prox returns, for every row of the input (any batch shape) and
\* every tau > 0, the elementwise soft-thresholding sign(x_i) * max(0, |x_i| - tau);
\* no z does better than it on sum|z_i| + (1/(2 tau)) ||z - x||^2; and the two
\* evaluation points of the test come out as the test expects
C1_L1NormProx ==
    call.op = "L1Norm.prox" =>
        /\ call.raised = ""
        /\ call.out.shape = call.arr.shape
        /\ \A k \in 1..NRows(call.arr) :
              LET x == call.arr.data[k]
                  y == call.out.data[k]
                  oy == L1Objective(y, x, call.tau)
              IN  /\ IsSoftThresholded(y, x, call.tau)
                  /\ \A z \in Candidates(y, x) : RLe(oy, L1Objective(z, x, call.tau))
        /\ \A t \in data_prox :
              (call.arr = Arr1(t.arr) /\ call.tau = t.tau) => call.out = Arr1(t.out)

C1_Witness ==
    /\ call.op = "L1Norm.prox"
    /\ call.arr = Arr1(IntVec(<<-3, -2, -1, 0, 1>>))
    /\ call.tau = One
    /\ call.out = Arr1(IntVec(<<-2, -1, 0, 0, 0>>))


BallOps == {"L1Ball.prox", "L2Ball.prox", "LInfinityBall.prox"}

\* ||x|| <= radius in the norm of the ball the call projects on
InsideBall ==
    LET x == call.arr.data[1]
    IN  CASE call.op = "L1Ball.prox" -> RLe(Norm1(x), call.radius)
          [] call.op = "L2Ball.prox" -> RLe(Norm2Sq(x), RMul(call.radius, call.radius))
          [] call.op = "LInfinityBall.prox" -> RLe(NormInf(x), call.radius)

\* C3: for L1Ball, L2Ball and LInfinityBall of radius r, every x with
\* ||x|| <= r and any tau: prox(x, tau) returns x unchanged, with no root search
C3_BallIdempotence ==
    (call.op \in BallOps /\ InsideBall) =>
        /\ call.raised = ""
        /\ call.out = call.arr
        /\ ~call.bracket.used

C3_Witness ==
    /\ call.op = "L1Ball.prox"
    /\ Norm1(call.arr.data[1]) = call.radius
    /\ Len(call.arr.data[1]) = 2
    /\ call.tau = Rat(4, 1)
    /\ call.out = call.arr

ProxOps ==
    {"L1Norm.prox", "L2Norm.prox", "SquaredL2Norm.prox", "SquaredL1Norm.prox",
     "LInftyNorm.prox"} \cup BallOps

IsZeroArr(a) == \A k \in 1..NRows(a) : \A i \in 1..Len(a.data[k]) : a.data[k][i] = Zero

\* C4: every norm and ball prox (SquaredL1Norm under 'sort' and under 'root'),
\* for every tau > 0, returns the all-zero vector on the all-zero vector and
\* raises nothing
C4_ZeroInputNoOp ==
    (call.op \in ProxOps /\ IsZeroArr(call.arr)) =>
        /\ call.raised = ""
        /\ call.out = call.arr

\* C5: whenever L1Ball.prox, LInftyNorm.prox or SquaredL1Norm._prox_root
\* reaches its root search, the bracket [a, b] has a <= b and end values of
\* opposite sign (or zero), and the search does not fail
C5_BracketHasSignChange ==
    call.bracket.used =>
        /\ RLe(call.bracket.a, call.bracket.b)
        /\ RLe(RMul(call.bracket.fa, call.bracket.fb), Zero)
        /\ call.raised = ""

\* |a - b| <= 1e-6
Within1em6(a, b) ==
    LET e == RAbs(RSub(a, b))
    IN  IsFinite(e) /\ e.n <= e.d \div 1000000

\* C6: for every x and tau > 0 the sort-based and the root-based prox of
\* SquaredL1Norm return the same vector within 1e-6
C6_SortRootAgree ==
    call.op = "SquaredL1Norm.prox" =>
        LET x == call.arr.data[1]
            other == SquaredL1Norm_prox(x, call.tau,
                                        IF call.variant = "sort" THEN "root" ELSE "sort")
        IN  /\ call.raised = ""
            /\ other.raised = ""
            /\ \A i \in 1..Len(x) : Within1em6(call.out.data[1][i], other.out[i])

\* C7: the Hessian of SquaredL2Norm raises iff dim is None; with dim set it
\* returns the identity operator of that dimension and raises nothing
C7_HessianPrecondition ==
    call.op = "SquaredL2Norm.hessian" =>
        /\ (call.raised # "") <=> (call.dim = None)
        /\ call.dim = None => call.ret = NoRet
        /\ call.dim # None => call.ret = [op |-> "IdentityOp", dim |-> call.dim]

C7_Witness ==
    /\ call.op = "SquaredL2Norm.hessian"
    /\ call.dim = MaxDim
    /\ call.raised = ""
    /\ call.ret.op = "IdentityOp"

---------------------------------------------------------------------------
(* Claims about the solver (checked under SpecCG).                         *)

\* C8: every fit ends, after at most the bounded number of m_step calls, in
\* one of the two terminal states converged or max-iterations-reached: no fit
\* ends in any other way
C8_FitEndsTerminal ==
    /\ status \in {"uninitialized", "running"} \cup Terminal
    /\ idx <= MaxIter

\* C9: with an x0 of any shape broadcastable with b's, the iterate x has the
\* shape of b after m_init and after every step, and no m_step fails
C9_X0Broadcast ==
    (status # "uninitialized" /\ args.hasX0) =>
        /\ status # "error"
        /\ heap[mst.x].shape = args.b.shape

\* b - A.x entry by entry, x broadcast against b
ResidualOf(M, b, x) ==
    [k \in 1..NRows(b) |->
        [i \in 1..Len(b.data[k]) |->
            RSub(b.data[k][i],
                 VSum([j \in 1..Len(M[i]) |->
                         RMul(M[i][j], x.data[IF NRows(x) = 1 THEN 1 ELSE k][j])]))]]

\* C10: after m_init(b, x0) the state holds x == x0 (zeros of b's shape when
\* x0 is None), residual == b - A.apply(x), and conjugate_dir equal to residual
\* in value but a separate array object; the state's arrays are distinct
\* objects throughout, and a re-fit sets b, x, residual and conjugate_dir anew
C10_InitState ==
    /\ status # "uninitialized" =>
          /\ mst.b = "b"
          /\ mst.conjugate_dir # mst.residual
          /\ Cardinality({mst.b, mst.x, mst.residual, mst.conjugate_dir}) = 4
    /\ (status = "running" /\ idx = 0) =>
          /\ heap[mst.b] = args.b
          /\ heap[mst.x] = (IF args.hasX0 THEN args.x0 ELSE zeros_like(args.b))
          /\ heap[mst.residual].shape = args.b.shape
          /\ heap[mst.residual].data = ResidualOf(A, args.b, heap[mst.x])
          /\ heap[mst.conjugate_dir] = heap[mst.residual]

\* a re-fit with an x0 whose residual is not zero, on an operator other than
\* the identity
C10_Witness ==
    /\ fits = 2
    /\ status = "running"
    /\ idx = 0
    /\ args.hasX0
    /\ A # IdentityOperator
    /\ heap[mst.x] = Arr1(IntVec(<<1, 1>>))
    /\ \E k \in 1..NRows(heap[mst.residual]) :
          Norm2Positive(heap[mst.residual].data[k])
    /\ heap[mst.conjugate_dir] = heap[mst.residual]

\* the textbook recurrence on one batch entry, from the pre-step x, r, p
CGRow(M, x, r, p) ==
    LET Ap == [i \in 1..Len(M) |-> VSum([j \in 1..Len(p) |-> RMul(M[i][j], p[j])])]
        rr == VSum([i \in 1..Len(r) |-> RMul(r[i], r[i])])
        pAp == VSum([i \in 1..Len(p) |-> RMul(p[i], Ap[i])])
        alpha == RDiv(rr, pAp)
        x_new == [i \in 1..Len(p) |-> RAdd(x[i], RMul(alpha, p[i]))]
        r_new == [i \in 1..Len(r) |-> RSub(r[i], RMul(alpha, Ap[i]))]
        beta == RDiv(VSum([i \in 1..Len(r) |-> RMul(r_new[i], r_new[i])]), rr)
        p_new == [i \in 1..Len(p) |-> RAdd(r_new[i], RMul(beta, p[i]))]
    IN  [x |-> x_new, r |-> r_new, p |-> p_new]

\* the recurrence on every batch entry of a state whose r and p have b's shape
CGExpected(M, x, r, p) ==
    LET rows == [k \in 1..NRows(r) |->
                    CGRow(M, x.data[IF NRows(x) = 1 THEN 1 ELSE k], r.data[k], p.data[k])]
    IN  [x |-> [shape |-> r.shape, data |-> [k \in 1..NRows(r) |-> rows[k].x]],
         r |-> [shape |-> r.shape, data |-> [k \in 1..NRows(r) |-> rows[k].r]],
         p |-> [shape |-> r.shape, data |-> [k \in 1..NRows(r) |-> rows[k].p]]]

\* C11: one m_step call takes the state (x, r, p) to (x + alpha p, r - alpha A p,
\* r_new + beta p), alpha = ||r||^2 / (p.A.p) from the pre-step r and p and
\* beta = ||r_new||^2 / ||r_old||^2, per batch entry; the call does not fail
C11_StepRecurrence ==
    [][status = "running" =>
          LET e == CGExpected(A, heap[mst.x], heap[mst.residual], heap[mst.conjugate_dir])
          IN  /\ status' # "error"
              /\ heap'[mst'.x] = e.x
              /\ heap'[mst'.residual] = e.r
              /\ heap'[mst'.conjugate_dir] = e.p]_vars

\* no entry of the array is NaN or infinite
IsFiniteArr(a) ==
    \A k \in 1..NRows(a) : \A i \in 1..Len(a.data[k]) : IsFinite(a.data[k][i])

\* the divisors of the next m_step, per batch entry: p.A.p and ||r||^2
StepDivisors ==
    LET r == heap[mst.residual]
        p == heap[mst.conjugate_dir]
    IN  [k \in 1..NRows(r) |->
            [pAp |-> Dot(p.data[k], MatVec(A, p.data[k])), rr |-> Norm2Sq(r.data[k])]]

\* C12: with a positive-definite A, every m_step of a fit divides by nonzero
\* p.A.p and ||r_old||^2 in every batch entry, and x, residual and conjugate_dir
\* never hold a NaN or an infinity: also for a batch entry whose residual is
\* already zero, and for b - A.x0 = 0 at initialisation
C12_DivisorsNonzero ==
    /\ status = "running" =>
          \A k \in DOMAIN StepDivisors :
              StepDivisors[k].pAp # Zero /\ StepDivisors[k].rr # Zero
    /\ status # "uninitialized" =>
          /\ IsFiniteArr(heap[mst.x])
          /\ IsFiniteArr(heap[mst.residual])
          /\ IsFiniteArr(heap[mst.conjugate_dir])

\* C13: the array objects the caller passed to fit as b and as x0 hold their
\* original values after m_init, after every m_step and after every
\* stopping-criterion evaluation
C13_CallerArraysUnchanged ==
    status # "uninitialized" =>
        /\ heap["b"] = args.b
        /\ args.hasX0 => heap["x0"] = args.x0

=============================================================================
